---- MODULE Spec2Model ----
(***************************************************************************)
(* A model of the generation pipeline of creative_boost:                   *)
(* CreativePipeline.execute (backend/src/core/pipeline.ts) run on one      *)
(* campaign brief against a cloud provider, a composition engine and a     *)
(* progress callback whose calls may each succeed or fail.                 *)
(*                                                                         *)
(* One action is one awaited call of execute together with the synchronous *)
(* code that follows it up to the next call, or one catch handler.         *)
(* Products are identified by their index in brief.products (product ids   *)
(* are distinct within a brief), aspect ratios by their label.             *)
(***************************************************************************)
EXTENDS Integers, Sequences, FiniteSets, TLC

\* ---------------------------------------------------------------- bounds
\* Largest number of products of a brief that is explored.
MaxProducts == 2
\* Largest number of failing calls (provider, composition, callback) of a run.
MaxFailures == 1

\* Largest number of WebSocket connections accepted by the server.
MaxSockets == 3
\* Largest number of pipeline runs in flight at the same time.
MaxRuns == 2

\* Largest length of a campaignId or productId.
MaxIdLen == 2
\* Largest value of the clock read by Date.now().
MaxTime == 1
\* Largest number of variants stored.
MaxUploads == 2

\* Largest number of words of an overlay text.
MaxWords == 3

\* ------------------------------------------------------- program constants
\* products: z.array(ProductSchema).min(2)
MinProducts == 2

\* The labels of ASPECT_RATIOS, in the configured order.
ASPECT_RATIOS == <<"1:1", "9:16", "16:9">>

NumRatios == Len(ASPECT_RATIOS)

RatioLabels == {ASPECT_RATIOS[i] : i \in 1..NumRatios}

\* An absent aspectRatio (of a ProgressEvent, or of a call that is not made
\* for a variant).
None == "-"

\* An absent productId: products are numbered from 1.
NoProduct == 0

VARIABLES
  numProducts,   \* brief.products.length
  existing,      \* existing[p]: product p has a non-empty existingAssets
  logoMode,      \* "buffer": brandAssets.logoBuffer, "path": brandAssets.logo, "none"
  hasCallback,   \* this.progressCallback is defined
  useAIText,     \* process.env.USE_AI_TEXT_RENDERING === 'true'
  pc,            \* the position of execute
  pi,            \* index of the product being processed (for .. of brief.products)
  ri,            \* index of the aspect ratio being processed (for .. of ASPECT_RATIOS)
  logoBuffer,    \* logoBuffer !== undefined
  assets,        \* assets: GeneratedAsset[]
  errors,        \* errors: {productId, aspectRatio, error}[]
  events,        \* the events passed to sendProgress, in order
  calls,         \* the provider and composition calls made, in order
  failures,      \* the calls that failed, in order; an error is its index here
  caught,        \* the error bound by the catch clause being executed (0: none)
  thrown,        \* the error execute rejected with (0: none)
  result         \* the summary of the PipelineResult returned (or None)

\* The API server (backend/src/api): its WebSocket connections and the
\* pipeline runs started by POST /api/campaigns/generate.
VARIABLES
  activeConnections, \* the Map campaignId -> WebSocket, as a set of <<key, value>>
  readyState,        \* readyState[w] of every socket
  socketCampaign,    \* the campaignId query parameter socket w connected with
  connectOrder,      \* the sockets that registered, in the order of their connection
  inFlight,          \* the campaignIds of the runs of execute not yet settled
  response,          \* the status of the last response of POST /generate (0: none)
  lastEvent          \* the campaignId of the event emitted last and the socket it was sent to

serverVars == <<activeConnections, readyState, socketCampaign, connectOrder,
                inFlight, response, lastEvent>>

\* The storage of variants (generateAssetFilename, S3StorageService.upload).
VARIABLES
  now,        \* the value Date.now() returns
  bucket,     \* the bucket name the storage service was constructed with
  objects,    \* the stored objects: <<key, i>>, the content being stored[i]
  stored      \* the GeneratedAssets made, with the campaign and the timestamp of each

storeVars == <<now, bucket, objects, stored>>

\* The colours of one call of addTextOverlay.
VARIABLES
  primary,              \* options.brandColors.primary (empty: not supplied)
  secondary,            \* options.brandColors.secondary (empty: not supplied)
  finalFontColor,       \* finalFontColor once the call has chosen its colours
  finalBackgroundColor, \* finalBackgroundColor once it has
  overlaid              \* the call has chosen its colours

overlayVars == <<primary, secondary, finalFontColor, finalBackgroundColor,
                 overlaid>>

\* The geometry of one call of addTextOverlay.
VARIABLES
  text,          \* options.text, as the lengths of the words text.split(' ') yields
  image,         \* metadata.width and metadata.height of the image
  fontSize,      \* options.fontSize
  position,      \* options.position
  logo,          \* options.logo: whether it is supplied, and its width and height
  logoPosition,  \* options.logoPosition
  layout,        \* the quantities the call has computed
  laidOut        \* the call has computed them

layoutVars == <<text, image, fontSize, position, logo, logoPosition, layout,
                laidOut>>

\* One call of a storage operation of a cloud provider built from the environment.
VARIABLES
  provider,      \* process.env.CLOUD_PROVIDER || 'aws'
  bucketEnv,     \* the bucket / container environment variable of that provider
  adapterPc,     \* "ready", "running" (a call is in progress) or "settled"
  operation,     \* the storage operation called
  underlying,    \* how the fs or SDK call the operation makes would end
  selfCalls,     \* the number of times the operation has called itself
  localCalls,    \* the number of fs calls made on the local storage path
  cloudCalls,    \* the number of cloud SDK calls made
  outcome,       \* "none", "returned" or "raised"
  returned       \* the value returned, None when there is none

adapterVars == <<provider, bucketEnv, adapterPc, operation, underlying,
                 selfCalls, localCalls, cloudCalls, outcome, returned>>

\* The state of the components other than the pipeline run.
others == <<serverVars, storeVars, overlayVars, layoutVars, adapterVars>>

vars == <<numProducts, existing, logoMode, hasCallback, useAIText, pc, pi, ri,
          logoBuffer, assets, errors, events, calls, failures, caught, thrown,
          result, others>>

\* The campaign ids clients use.
Campaigns == {"c1", "c2"}

\* The connections, in the order the server accepts them.
Sockets == 1..MaxSockets

\* An absent socket.
NoSocket == 0

\* A server that has accepted no connection and started no run.
ServerInit ==
  /\ activeConnections = {}
  /\ readyState = [w \in Sockets |-> "CONNECTING"]
  /\ socketCampaign = [w \in Sockets |-> None]
  /\ connectOrder = <<>>
  /\ inFlight = <<>>
  /\ response = 0
  /\ lastEvent = [campaignId |-> None, socket |-> NoSocket]

\* An empty local store.
StoreIdle ==
  /\ now = 0
  /\ bucket = <<>>
  /\ objects = {}
  /\ stored = <<>>

\* No call of addTextOverlay is examined.
OverlayIdle ==
  /\ primary = <<>>
  /\ secondary = <<>>
  /\ finalFontColor = <<>>
  /\ finalBackgroundColor = <<>>
  /\ overlaid = FALSE

\* No logo is supplied.
LogoAbsent == [present |-> FALSE, width |-> 0, height |-> 0]

\* The layout before anything is computed.
NoLayout ==
  [maxCharsPerLine |-> 0, estimatedLines |-> 0, lines |-> <<>>,
   boxHeight10 |-> 0, yPosition10 |-> 0, textX |-> 0, textStartY20 |-> 0,
   estimatedTextWidth10 |-> 0, logoWidth |-> 0, logoHeight |-> 0,
   logoX |-> 0, logoY10 |-> 0, logoSpacing |-> 0, wrapWidth |-> 0]

\* No geometry of addTextOverlay is examined.
LayoutIdle ==
  /\ text = <<0>>
  /\ image = [width |-> 0, height |-> 0]
  /\ fontSize = 0
  /\ position = "top"
  /\ logo = LogoAbsent
  /\ logoPosition = "prefix"
  /\ layout = NoLayout
  /\ laidOut = FALSE

\* An environment variable that is not set.
Unset == [set |-> FALSE, value |-> ""]

\* No storage adapter is examined.
AdapterIdle ==
  /\ provider = "aws"
  /\ bucketEnv = Unset
  /\ adapterPc = "ready"
  /\ operation = None
  /\ underlying = "ok"
  /\ selfCalls = 0
  /\ localCalls = 0
  /\ cloudCalls = 0
  /\ outcome = "none"
  /\ returned = None

\* The other components at rest while one pipeline run is examined.
OthersIdle ==
  ServerInit /\ StoreIdle /\ OverlayIdle /\ LayoutIdle /\ AdapterIdle

brief == <<numProducts, existing, logoMode, hasCallback, useAIText>>

Products == 1..numProducts

\* ------------------------------------------------------------------ helpers

\* ProgressEvent: type, productId?, aspectRatio?, completed?
Event(type, productId, aspectRatio, completed) ==
  [type |-> type, productId |-> productId, aspectRatio |-> aspectRatio,
   completed |-> completed]

\* A call of the provider or of the composition engine.
Call(op, productId, aspectRatio) ==
  [op |-> op, productId |-> productId, aspectRatio |-> aspectRatio]

\* The entry of product.existingAssets that is downloaded as the base image.
FirstEntry == "existingAssets[0]"

\* A product that always gets a freshly generated base image.
UsesExistingAsset_Never(p) == FALSE

\* product.existingAssets && product.existingAssets.length > 0
UsesExistingAsset(p) == existing[p]

\* The base-image acquisition call of product p: the download names the
\* entry it fetches.
AcquisitionCall(op, p) ==
  [op |-> op, productId |-> p, aspectRatio |-> None,
   entry |-> IF op = "download" THEN FirstEntry ELSE None]

\* A failed call; kind is the operation that failed, "callback" for a
\* progress callback that threw.
Failure(kind, productId, aspectRatio) ==
  [kind |-> kind, productId |-> productId, aspectRatio |-> aspectRatio]

\* The outcomes of an awaited call: it resolves, or (while the run has
\* failures left to explore) rejects.
Outcomes == IF Len(failures) < MaxFailures THEN {"ok", "fail"} ELSE {"ok"}

\* The outcomes of sendProgress: without a callback it returns; a callback
\* returns or throws.
SendOutcomes == IF hasCallback THEN Outcomes ELSE {"ok"}

\* errors.push({productId, aspectRatio, error}) of the per-ratio catch; the
\* error message is kept by its fixed prefix.
PushVariantError(errs, productId, aspectRatio) ==
  Append(errs, [productId |-> productId, aspectRatio |-> aspectRatio,
                error |-> "Failed to create variant"])

\* A per-product catch that records a single error entry for the product.
PushProductErrors_Single(errs, productId) ==
  Append(errs, [productId |-> productId, aspectRatio |-> ASPECT_RATIOS[1],
                error |-> "Failed to process product"])

\* for (const aspectRatio of ASPECT_RATIOS) errors.push(...) of the per-product catch.
PushProductErrors(errs, productId) ==
  errs \o [i \in 1..NumRatios |->
            [productId |-> productId, aspectRatio |-> ASPECT_RATIOS[i],
             error |-> "Failed to process product"]]

\* A per-ratio block that never records its asset.
PushAsset_Dropped(as, productId, aspectRatio) == as

\* assets.push(asset)
PushAsset(as, productId, aspectRatio) ==
  Append(as, [productId |-> productId, aspectRatio |-> aspectRatio])

\* A summary whose total is the number of assets produced.
Summary_TotalIsSuccess(np, as, errs) ==
  [totalAssets |-> Len(as), successCount |-> Len(as),
   errorCount |-> Len(errs)]

\* The summary of the PipelineResult.
Summary(np, as, errs) ==
  [totalAssets |-> np * NumRatios, successCount |-> Len(as),
   errorCount |-> Len(errs)]

\* A per-ratio catch that leaves the aspect-ratio loop of the product.
NextRatioAfterCatch_Break(r) == NumRatios + 1

\* A per-ratio catch that tries the same aspect ratio again.
NextRatioAfterCatch_Retry(r) == r

\* The aspect ratio the loop goes to after the per-ratio catch handled a failure.
NextRatioAfterCatch(r) == r + 1

\* A per-product catch that also drops the product that follows.
NextProductAfterCatch_Skip(p) == p + 2

\* A per-product catch that tries the same product again.
NextProductAfterCatch_Retry(p) == p

\* The product the loop goes to after the per-product catch handled a failure.
NextProductAfterCatch(p) == p + 1

\* Where a rejected provider call of the base-image acquisition is handled.
AcquisitionHandler == "productCatch"

\* A per-ratio block without its own try: its failures reach the outermost
\* catch.
VariantHandler_Outer == "catch"

\* Where a rejected call of the per-ratio block is handled.
VariantHandler == "variantCatch"

\* A last event sent with the type of an informational event.
CompleteEvent_AsProgress == Event("progress", NoProduct, None, FALSE)

\* The event emitted before the summary is returned.
CompleteEvent == Event("complete", NoProduct, None, FALSE)

\* ---------------------------------------------------------------- initial

Init ==
  /\ numProducts \in MinProducts..MaxProducts
  /\ existing \in [1..numProducts -> BOOLEAN]
  /\ logoMode \in {"none", "buffer", "path"}
  /\ hasCallback \in BOOLEAN
  /\ useAIText \in BOOLEAN
  /\ pc = "logo"
  /\ pi = 1
  /\ ri = 1
  /\ logoBuffer = FALSE
  /\ assets = <<>>
  /\ errors = <<>>
  /\ events = <<>>
  /\ calls = <<>>
  /\ failures = <<>>
  /\ caught = 0
  /\ thrown = 0
  /\ result = None
  /\ OthersIdle

\* ---------------------------------------------------------------- actions

\* if (brief.brandAssets && logoBuffer) { try { await upload(...) } catch {} }
LogoUpload ==
  /\ pc = "logo"
  /\ logoMode = "buffer"
  /\ calls' = Append(calls, Call("upload", NoProduct, None))
  /\ \E o \in Outcomes :
       IF o = "ok"
       THEN /\ logoBuffer' = TRUE
            /\ UNCHANGED failures
       ELSE /\ logoBuffer' = FALSE
            /\ failures' = Append(failures, Failure("logoUpload", NoProduct, None))
  /\ pc' = "product"
  /\ UNCHANGED <<others, brief, pi, ri, assets, errors, events, caught, thrown, result>>

\* else if (brief.brandAssets?.logo) { try { logoBuffer = await download(...) } catch {} }
LogoDownload ==
  /\ pc = "logo"
  /\ logoMode = "path"
  /\ calls' = Append(calls, Call("download", NoProduct, None))
  /\ \E o \in Outcomes :
       IF o = "ok"
       THEN /\ logoBuffer' = TRUE
            /\ UNCHANGED failures
       ELSE /\ logoBuffer' = FALSE
            /\ failures' = Append(failures, Failure("logoDownload", NoProduct, None))
  /\ pc' = "product"
  /\ UNCHANGED <<others, brief, pi, ri, assets, errors, events, caught, thrown, result>>

\* else { logger.info('No logo provided for this campaign') }
NoLogo ==
  /\ pc = "logo"
  /\ logoMode = "none"
  /\ pc' = "product"
  /\ UNCHANGED <<others, brief, pi, ri, logoBuffer, assets, errors, events, calls,
                 failures, caught, thrown, result>>

\* for (const product of brief.products): existingAssets is non-empty, the
\* download of existingAssets[0] is the next call.
UseExistingAsset ==
  /\ pc = "product"
  /\ pi <= numProducts
  /\ UsesExistingAsset(pi)
  /\ pc' = "download"
  /\ UNCHANGED <<others, brief, pi, ri, logoBuffer, assets, errors, events, calls,
                 failures, caught, thrown, result>>

\* for (const product of brief.products): no existing asset; sendProgress
\* "Generating image for ..." and then generateImage is the next call.
AnnounceGeneration ==
  /\ pc = "product"
  /\ pi <= numProducts
  /\ ~UsesExistingAsset(pi)
  /\ events' = Append(events, Event("progress", pi, None, FALSE))
  /\ \E o \in SendOutcomes :
       IF o = "ok"
       THEN /\ pc' = "generate"
            /\ UNCHANGED <<failures, caught>>
       ELSE /\ failures' = Append(failures, Failure("callback", pi, None))
            /\ caught' = Len(failures')
            /\ pc' = AcquisitionHandler
  /\ UNCHANGED <<others, brief, pi, ri, logoBuffer, assets, errors, calls, thrown, result>>

\* The base-image acquisition call op ("download" or "generateImage") of
\* product pi resolves or rejects.
Acquire(op) ==
  /\ calls' = Append(calls, AcquisitionCall(op, pi))
  /\ \E o \in Outcomes :
       IF o = "ok"
       THEN /\ pc' = "ratio"
            /\ ri' = 1
            /\ UNCHANGED <<failures, caught>>
       ELSE /\ failures' = Append(failures, Failure(op, pi, None))
            /\ caught' = Len(failures')
            /\ pc' = AcquisitionHandler
            /\ UNCHANGED ri
  /\ UNCHANGED <<others, brief, pi, logoBuffer, assets, errors, events, thrown, result>>

\* baseImage = await this.cloudProvider.download(product.existingAssets[0])
Download ==
  /\ pc = "download"
  /\ Acquire("download")

\* baseImage = await this.cloudProvider.generateImage({...})
GenerateImage ==
  /\ pc = "generate"
  /\ Acquire("generateImage")

\* for (const aspectRatio of ASPECT_RATIOS) { try { sendProgress("Creating ...")
BeginVariant ==
  /\ pc = "ratio"
  /\ ri <= NumRatios
  /\ events' = Append(events, Event("progress", pi, ASPECT_RATIOS[ri], FALSE))
  /\ \E o \in SendOutcomes :
       IF o = "ok"
       THEN /\ pc' = "resize"
            /\ UNCHANGED <<failures, caught>>
       ELSE /\ failures' = Append(failures, Failure("callback", pi, ASPECT_RATIOS[ri]))
            /\ caught' = Len(failures')
            /\ pc' = VariantHandler
  /\ UNCHANGED <<others, brief, pi, ri, logoBuffer, assets, errors, calls, thrown, result>>

\* The aspect-ratio loop of a product ends; the product loop goes on.
EndProduct ==
  /\ pc = "ratio"
  /\ ri > NumRatios
  /\ pi' = pi + 1
  /\ pc' = "product"
  /\ UNCHANGED <<others, brief, ri, logoBuffer, assets, errors, events, calls,
                 failures, caught, thrown, result>>

\* ASPECT_RATIOS.findIndex(ar => ar.label === label), counted from 0.
FindIndex(label) ==
  (CHOOSE i \in 1..NumRatios : ASPECT_RATIOS[i] = label) - 1

\* A logo that is always placed before the text.
LogoPosition_AlwaysPrefix(aspectRatioIndex) == "prefix"

\* const logoPosition = aspectRatioIndex % 2 === 0 ? 'prefix' : 'suffix'
LogoPosition(aspectRatioIndex) ==
  IF aspectRatioIndex % 2 = 0 THEN "prefix" ELSE "suffix"

\* The call of a composition function for product p and the ratio labelled
\* label; addTextOverlay is also given the logo position.
CompositionCall(op, p, label) ==
  IF op = "overlay"
  THEN [op |-> op, productId |-> p, aspectRatio |-> label,
        logoPosition |-> LogoPosition(FindIndex(label))]
  ELSE Call(op, p, label)

\* The composition call op of variant (pi, ri) resolves, and execute goes to
\* next, or rejects.
Compose(op, next) ==
  /\ calls' = Append(calls, CompositionCall(op, pi, ASPECT_RATIOS[ri]))
  /\ \E o \in Outcomes :
       IF o = "ok"
       THEN /\ pc' = next
            /\ UNCHANGED <<failures, caught>>
       ELSE /\ failures' = Append(failures, Failure(op, pi, ASPECT_RATIOS[ri]))
            /\ caught' = Len(failures')
            /\ pc' = VariantHandler
  /\ UNCHANGED <<others, brief, pi, ri, logoBuffer, assets, errors, events, thrown, result>>

\* const resized = await resizeImage(baseImage, width, height); with AI text
\* rendering the overlay is skipped (final = resized).
Resize ==
  /\ pc = "resize"
  /\ Compose("resize", IF useAIText THEN "upload" ELSE "overlay")

\* const final = await addTextOverlay(resized, {...})
Overlay ==
  /\ pc = "overlay"
  /\ Compose("overlay", "upload")

\* const filePath = await upload(final, filename, 'image/png');
\* assets.push(asset); sendProgress({..., asset, completed: true})
Upload ==
  /\ pc = "upload"
  /\ calls' = Append(calls, Call("upload", pi, ASPECT_RATIOS[ri]))
  /\ \E o \in Outcomes :
       IF o = "ok"
       THEN /\ assets' = PushAsset(assets, pi, ASPECT_RATIOS[ri])
            /\ pc' = "created"
            /\ UNCHANGED <<failures, caught>>
       ELSE /\ failures' = Append(failures, Failure("upload", pi, ASPECT_RATIOS[ri]))
            /\ caught' = Len(failures')
            /\ pc' = VariantHandler
            /\ UNCHANGED assets
  /\ UNCHANGED <<others, brief, pi, ri, logoBuffer, errors, events, thrown, result>>

\* sendProgress({type: 'progress', ..., asset, completed: true}), the last
\* statement of the per-ratio try block.
AnnounceCreated ==
  /\ pc = "created"
  /\ events' = Append(events, Event("progress", pi, ASPECT_RATIOS[ri], TRUE))
  /\ \E o \in SendOutcomes :
       IF o = "ok"
       THEN /\ pc' = "ratio"
            /\ ri' = ri + 1
            /\ UNCHANGED <<failures, caught>>
       ELSE /\ failures' = Append(failures, Failure("callback", pi, ASPECT_RATIOS[ri]))
            /\ caught' = Len(failures')
            /\ pc' = VariantHandler
            /\ UNCHANGED ri
  /\ UNCHANGED <<others, brief, pi, logoBuffer, assets, errors, calls, thrown, result>>

\* The per-ratio catch: errors.push({productId, aspectRatio, error});
\* sendProgress({type: 'error', productId, aspectRatio, ...})
VariantCatch ==
  /\ pc = "variantCatch"
  /\ errors' = PushVariantError(errors, pi, ASPECT_RATIOS[ri])
  /\ events' = Append(events, Event("error", pi, ASPECT_RATIOS[ri], FALSE))
  /\ \E o \in SendOutcomes :
       IF o = "ok"
       THEN /\ pc' = "ratio"
            /\ ri' = NextRatioAfterCatch(ri)
            /\ caught' = 0
            /\ UNCHANGED failures
       ELSE /\ failures' = Append(failures, Failure("callback", pi, ASPECT_RATIOS[ri]))
            /\ caught' = Len(failures')
            /\ pc' = "productCatch"
            /\ UNCHANGED ri
  /\ UNCHANGED <<others, brief, pi, logoBuffer, assets, calls, thrown, result>>

\* The per-product catch: one error per aspect ratio;
\* sendProgress({type: 'error', productId, ...})
ProductCatch ==
  /\ pc = "productCatch"
  /\ errors' = PushProductErrors(errors, pi)
  /\ events' = Append(events, Event("error", pi, None, FALSE))
  /\ \E o \in SendOutcomes :
       IF o = "ok"
       THEN /\ pc' = "product"
            /\ pi' = NextProductAfterCatch(pi)
            /\ caught' = 0
            /\ UNCHANGED failures
       ELSE /\ failures' = Append(failures, Failure("callback", pi, None))
            /\ caught' = Len(failures')
            /\ pc' = "catch"
            /\ UNCHANGED pi
  /\ UNCHANGED <<others, brief, ri, logoBuffer, assets, calls, thrown, result>>

\* After the product loop: the result is built, sendProgress({type:
\* 'complete'}), return result.
Finish ==
  /\ pc = "product"
  /\ pi > numProducts
  /\ events' = Append(events, CompleteEvent)
  /\ \E o \in SendOutcomes :
       IF o = "ok"
       THEN /\ pc' = "returned"
            /\ result' = Summary(numProducts, assets, errors)
            /\ UNCHANGED <<failures, caught>>
       ELSE /\ failures' = Append(failures, Failure("callback", NoProduct, None))
            /\ caught' = Len(failures')
            /\ pc' = "catch"
            /\ UNCHANGED result
  /\ UNCHANGED <<others, brief, pi, ri, logoBuffer, assets, errors, calls, thrown>>

\* The outermost catch: sendProgress({type: 'error', ...}); throw error
OuterCatch ==
  /\ pc = "catch"
  /\ events' = Append(events, Event("error", NoProduct, None, FALSE))
  /\ \E o \in SendOutcomes :
       IF o = "ok"
       THEN /\ thrown' = caught
            /\ UNCHANGED failures
       ELSE /\ failures' = Append(failures, Failure("callback", NoProduct, None))
            /\ thrown' = Len(failures')
  /\ pc' = "thrown"
  /\ UNCHANGED <<others, brief, pi, ri, logoBuffer, assets, errors, calls, caught, result>>

Next ==
  \/ LogoUpload
  \/ LogoDownload
  \/ NoLogo
  \/ UseExistingAsset
  \/ AnnounceGeneration
  \/ Download
  \/ GenerateImage
  \/ BeginVariant
  \/ EndProduct
  \/ Resize
  \/ Overlay
  \/ Upload
  \/ AnnounceCreated
  \/ VariantCatch
  \/ ProductCatch
  \/ Finish
  \/ OuterCatch

Spec == Init /\ [][Next]_vars

\* ------------------------------------------------------------------- types

TypeOK ==
  /\ numProducts \in MinProducts..MaxProducts
  /\ pc \in {"logo", "product", "download", "generate", "ratio", "resize",
             "overlay", "upload", "created", "variantCatch", "productCatch",
             "catch", "returned", "thrown"}
  /\ pi \in 1..(numProducts + 1)
  /\ ri \in 1..(NumRatios + 1)
  /\ Len(failures) <= MaxFailures
  /\ caught \in 0..Len(failures)
  /\ thrown \in 0..Len(failures)

\* ------------------------------------------------- vocabulary of the claims

\* The failures of the per-item work: the base-image acquisition of a
\* product and the resize, overlay and upload of a variant.
AcquisitionKinds == {"download", "generateImage"}

VariantKinds == {"resize", "overlay", "upload"}

\* The failures that are not the logo's: the logo is no item of the brief.
ItemFailures == SelectSeq(failures, LAMBDA f : f.kind \notin {"logoUpload", "logoDownload"})

EventIndexes == DOMAIN events

\* A terminal event: a progress event with completed = true, or an error event.
IsTerminal(e) == (e.type = "progress" /\ e.completed) \/ e.type = "error"

\* A per-item event: a progress or error event that carries a productId.
IsPerItem(e) == e.type \in {"progress", "error"} /\ e.productId # NoProduct

\* The indexes of the events that carry the pair (p, r).
PairEvents(p, r) ==
  {i \in EventIndexes : events[i].productId = p /\ events[i].aspectRatio = r}

TerminalEvents(p, r) == {i \in PairEvents(p, r) : IsTerminal(events[i])}

\* The indexes of the assets / error entries of the pair (p, r).
AssetsOf(p, r) ==
  {i \in DOMAIN assets : assets[i].productId = p /\ assets[i].aspectRatio = r}

ErrorsOf(p, r) ==
  {i \in DOMAIN errors : errors[i].productId = p /\ errors[i].aspectRatio = r}

\* ------------------------------------------------------------------- claims

\* C1: if resize, overlay or upload fails for exactly one (productId,
\* aspectRatio) pair and nothing else of the per-item work fails, the run is
\* never handed to the per-product or the outermost catch, and the result
\* returned has exactly one error entry, scoped to that pair, no asset of that
\* pair, and exactly one asset of every other pair: of the sibling ratios of
\* that product and of every ratio of every other product.
C1_VariantFailureIsolated ==
  (Len(ItemFailures) = 1 /\ ItemFailures[1].kind \in VariantKinds) =>
    LET f == ItemFailures[1] IN
      /\ pc \notin {"productCatch", "catch", "thrown"}
      /\ pc = "returned" =>
           /\ Len(errors) = 1
           /\ errors[1].productId = f.productId
           /\ errors[1].aspectRatio = f.aspectRatio
           /\ AssetsOf(f.productId, f.aspectRatio) = {}
           /\ \A p \in Products : \A r \in RatioLabels :
                <<p, r>> # <<f.productId, f.aspectRatio>> =>
                  Cardinality(AssetsOf(p, r)) = 1

\* A run returned after the overlay of the first ratio of product 1 failed,
\* with the two sibling ratios of product 1 among the assets.
C1_Witness ==
  /\ pc = "returned"
  /\ Len(ItemFailures) = 1
  /\ ItemFailures[1] = Failure("overlay", 1, "1:1")
  /\ Len(errors) = 1
  /\ AssetsOf(1, "9:16") # {}
  /\ AssetsOf(1, "16:9") # {}

\* C2: if the base-image acquisition fails for exactly one product and
\* nothing else of the per-item work fails, the result returned has, for that
\* product, exactly one error entry per aspect ratio and no asset, and for
\* every other product one asset per aspect ratio and no error entry; with two
\* products that is 3 errors, 3 assets and summary.totalAssets = 6.
C2_AcquisitionFailureCounts ==
  (pc = "returned" /\ Len(ItemFailures) = 1
     /\ ItemFailures[1].kind \in AcquisitionKinds) =>
    LET q == ItemFailures[1].productId IN
      /\ \A r \in RatioLabels :
           /\ Cardinality(ErrorsOf(q, r)) = 1
           /\ AssetsOf(q, r) = {}
      /\ \A p \in Products \ {q} : \A r \in RatioLabels :
           /\ Cardinality(AssetsOf(p, r)) = 1
           /\ ErrorsOf(p, r) = {}
      /\ Len(errors) = NumRatios
      /\ Len(assets) = (numProducts - 1) * NumRatios
      /\ numProducts = 2 =>
           /\ Len(errors) = 3
           /\ Len(assets) = 3
           /\ result.totalAssets = 6

\* The end-to-end scenario: two products, p1 succeeds, generateImage fails
\* for p2.
C2_Witness ==
  /\ pc = "returned"
  /\ numProducts = 2
  /\ ItemFailures = <<Failure("generateImage", 2, None)>>
  /\ Len(errors) = 3
  /\ Len(assets) = 3
  /\ \A i \in DOMAIN errors : errors[i].productId = 2
  /\ \A i \in DOMAIN assets : assets[i].productId = 1

\* C3: while every failure of a run is an acquisition, resize, overlay or
\* upload failure of a product or variant, execute does not throw: it is
\* never in its outermost catch, it can stop only by returning, and each such
\* failure is captured in errors (under its pair, or under every ratio of its
\* product) once its catch handler has run.
C3_PerItemFailuresNeverThrow ==
  (\A i \in DOMAIN failures : failures[i].kind \in AcquisitionKinds \cup VariantKinds) =>
    /\ pc \notin {"catch", "thrown"}
    /\ thrown = 0
    /\ ~(ENABLED Next) => pc = "returned"
    /\ pc = "returned" =>
         \A i \in DOMAIN failures :
           LET f == failures[i] IN
             IF f.kind \in VariantKinds
             THEN ErrorsOf(f.productId, f.aspectRatio) # {}
             ELSE \A r \in RatioLabels : ErrorsOf(f.productId, r) # {}

\* A run that returned although an upload failed.
C3_Witness ==
  /\ pc = "returned"
  /\ Len(failures) >= 1
  /\ failures[1].kind = "upload"
  /\ failures[1].productId # NoProduct
  /\ Len(errors) >= 1
  /\ thrown = 0

\* C4 (as claimed): in every result returned, successCount + errorCount <=
\* totalAssets.
C4_SummaryBound ==
  pc = "returned" =>
    result.successCount + result.errorCount <= result.totalAssets

\* C5 (as claimed): for every (productId, aspectRatio) pair at most one
\* terminal event is ever emitted.
C5_AtMostOneTerminal ==
  \A p \in Products : \A r \in RatioLabels :
    Cardinality(TerminalEvents(p, r)) <= 1

\* C6 (as claimed): the events of a pair are informational progress events,
\* then exactly one terminal event, and nothing after it: no event of the
\* pair follows a terminal event of the pair, and once the run has returned
\* every pair of the brief has exactly one terminal event.
C6_PairEventOrder ==
  \A p \in Products : \A r \in RatioLabels :
    /\ \A i \in TerminalEvents(p, r) : \A j \in PairEvents(p, r) : j <= i
    /\ pc = "returned" => Cardinality(TerminalEvents(p, r)) = 1

\* C7 (as claimed): a start event is emitted before any per-item event.
C7_StartBeforeWork ==
  \A i \in EventIndexes :
    IsPerItem(events[i]) => \E j \in 1..(i - 1) : events[j].type = "start"

\* C8: a run that returns has emitted exactly one complete event, as its
\* last event, so after the terminal event of every pair; and in no run does
\* a per-item event follow a complete event.
C8_OneCompleteLast ==
  /\ pc = "returned" =>
       /\ Cardinality({i \in EventIndexes : events[i].type = "complete"}) = 1
       /\ events[Len(events)].type = "complete"
  /\ \A i \in EventIndexes : \A j \in EventIndexes :
       (events[i].type = "complete" /\ i < j) => ~IsPerItem(events[j])

\* A run returned with a complete event after both a completed and an error
\* terminal event.
C8_Witness ==
  /\ pc = "returned"
  /\ events[Len(events)].type = "complete"
  /\ \E i \in EventIndexes : events[i].type = "error" /\ events[i].aspectRatio # None
  /\ \E i \in EventIndexes : events[i].type = "progress" /\ events[i].completed

\* The product whose catch handler has run: the loop is past it, or the run
\* left the loop from its handler.
Handled(p) == pi > p \/ (pi = p /\ pc \in {"catch", "thrown"})

\* The product whose processing has begun: an event or a call carries it.
Started(p) ==
  \/ \E i \in EventIndexes : events[i].productId = p
  \/ \E i \in DOMAIN calls : calls[i].productId = p

\* C9: when the base-image acquisition of a product fails, no resize, overlay
\* or upload is ever called for any of its aspect ratios and no event carries
\* one of its pairs; once its catch handler has run exactly one error event
\* carries its productId; and the run goes on with the next product: a run
\* that returns has started the next product (if any), announcing or calling
\* its acquisition.
C9_AcquisitionFailureSkipsRatios ==
  \A k \in DOMAIN failures :
    failures[k].kind \in AcquisitionKinds =>
      LET q == failures[k].productId IN
        /\ \A i \in DOMAIN calls :
             calls[i].productId = q => calls[i].op \in AcquisitionKinds
        /\ \A r \in RatioLabels : PairEvents(q, r) = {}
        /\ Handled(q) =>
             Cardinality({i \in EventIndexes :
                            events[i].type = "error" /\ events[i].productId = q}) = 1
        /\ (pc = "returned" /\ q < numProducts) => Started(q + 1)

\* The download of product 1 failed and product 2 was then processed to an
\* asset.
C9_Witness ==
  /\ pc = "returned"
  /\ failures = <<Failure("download", 1, None)>>
  /\ \E i \in EventIndexes : events[i].type = "error" /\ events[i].productId = 1
  /\ \E i \in DOMAIN assets : assets[i].productId = 2

\* C10 (as claimed): whenever execute throws, the error thrown was raised
\* outside the per-item work, the last event emitted is an error event, no
\* complete event has been emitted, and the error thrown is the error the
\* outermost catch caught.
C10_ThrowIsCatastrophic ==
  pc = "thrown" =>
    /\ thrown # 0
    /\ failures[thrown].kind \notin AcquisitionKinds \cup VariantKinds
    /\ events[Len(events)].type = "error"
    /\ \A i \in EventIndexes : events[i].type # "complete"
    /\ thrown = caught

\* C11: the summary of every result returned agrees with its lists and its
\* brief: totalAssets is the number of products times the number of
\* configured aspect ratios (three), successCount is the length of assets and
\* errorCount the length of errors.
C11_SummaryConsistent ==
  pc = "returned" =>
    /\ result.totalAssets = numProducts * Len(ASPECT_RATIOS)
    /\ result.totalAssets = numProducts + numProducts + numProducts
    /\ result.successCount = Len(assets)
    /\ result.errorCount = Len(errors)

\* A result with both assets and errors, whose counts differ from the total.
C11_Witness ==
  /\ pc = "returned"
  /\ Len(assets) > 0
  /\ Len(errors) > 0
  /\ result.successCount = Len(assets)
  /\ result.successCount < result.totalAssets

PartialFailure ==
  \E p \in Products : \E r \in RatioLabels : AssetsOf(p, r) = {}

\* C13 (as claimed): in every run that returns, errors is non-empty if and
\* only if at least one of the P x R variants was not produced into assets.
C13_ErrorsIffPartialFailure ==
  pc = "returned" => ((Len(errors) > 0) <=> PartialFailure)

\* The logo position the claim gives for each label of [1:1, 9:16, 16:9].
ExpectedLogoPosition ==
  [label \in RatioLabels |->
     CASE label = "1:1" -> "prefix"
       [] label = "9:16" -> "suffix"
       [] label = "16:9" -> "prefix"]

\* C27: every call of addTextOverlay is given the logo position of its
\* ratio's index: prefix at an even index, suffix at an odd one, that is
\* prefix, suffix, prefix for 1:1, 9:16, 16:9, for every product.  calls only
\* grows by appending, so checking the newest call in every state checks
\* every call.
C27_LogoAlternates ==
  (Len(calls) > 0 /\ calls[Len(calls)].op = "overlay") =>
    LET c == calls[Len(calls)]
    IN /\ c.logoPosition = ExpectedLogoPosition[c.aspectRatio]
       /\ c.logoPosition = "prefix" <=> FindIndex(c.aspectRatio) \in {0, 2}

\* A run with a logo has overlaid the suffix ratio of its first product and
\* the last ratio of its second product.
C27_Witness ==
  /\ logoBuffer
  /\ Len(calls) > 0
  /\ calls[Len(calls)] =
       [op |-> "overlay", productId |-> 2, aspectRatio |-> "16:9",
        logoPosition |-> "prefix"]
  /\ \E i \in DOMAIN calls :
       calls[i] = [op |-> "overlay", productId |-> 1, aspectRatio |-> "9:16",
                   logoPosition |-> "suffix"]

\* Every awaited call of a run (provider, composition engine, progress
\* callback) eventually returns or throws: the step that follows it is taken.
\* Termination is examined for the briefs of MinProducts products.
InitFair == Init /\ numProducts = MinProducts

SpecFair == InitFair /\ [][Next]_vars /\ WF_vars(Next)

\* The attempts made for products: a base-image acquisition attempt counts
\* for its product whichever call it is.
Attempts ==
  {<<IF c.op \in AcquisitionKinds THEN "acquire" ELSE c.op, c.productId,
     c.aspectRatio>> :
     c \in {calls[i] : i \in {j \in DOMAIN calls : calls[j].productId # NoProduct}}}

\* C30: when every awaited call eventually returns or throws, execute
\* eventually returns a PipelineResult or throws, and it never retries: at
\* most one base-image acquisition attempt per product and at most one
\* resize, one overlay and one upload attempt per (product, aspect ratio).
C30_TerminatesWithoutRetry ==
  /\ <>(pc \in {"returned", "thrown"})
  /\ [](Cardinality(Attempts)
          = Cardinality({j \in DOMAIN calls : calls[j].productId # NoProduct}))
  /\ [](Cardinality(Attempts) <= numProducts * (1 + 3 * NumRatios))

\* A run has returned after a failure for its first product, whose base image
\* it tried to acquire once, and has uploaded a variant of its second.
C30_Witness ==
  /\ pc = "returned"
  /\ Len(errors) > 0
  /\ Cardinality({i \in DOMAIN calls :
                    calls[i].productId = 1 /\ calls[i].op \in AcquisitionKinds}) = 1
  /\ \E i \in DOMAIN failures : failures[i].productId = 1
  /\ \E i \in DOMAIN calls : calls[i].productId = 2 /\ calls[i].op = "upload"

\* Position of an aspect-ratio label in ASPECT_RATIOS (0 for no label).
RatioIndex ==
  [label \in RatioLabels \cup {None} |->
     IF label = None THEN 0
     ELSE CHOOSE i \in 1..NumRatios : ASPECT_RATIOS[i] = label]

\* Position of a call in the per-product sequence: acquisition, then per
\* ratio resize, overlay, upload.
Stage ==
  [op \in AcquisitionKinds \cup VariantKinds |->
     CASE op \in AcquisitionKinds -> 0
       [] op = "resize" -> 1
       [] op = "overlay" -> 2
       [] op = "upload" -> 3]

\* Call c comes strictly before call d in brief order, then configured ratio
\* order, then stage order (the logo's call has no product and comes first).
CallBefore(c, d) ==
  \/ c.productId < d.productId
  \/ /\ c.productId = d.productId
     /\ \/ RatioIndex[c.aspectRatio] < RatioIndex[d.aspectRatio]
        \/ /\ c.aspectRatio = d.aspectRatio
           /\ Stage[c.op] < Stage[d.op]

\* C14: the provider and composition calls of a run are made one after the
\* other, products in brief order, the aspect ratios of a product in the
\* configured order, and within a variant resize, overlay, upload: each call
\* made comes strictly after the call made before it in that order (the
\* order is transitive), so no call is made twice and none is made for an
\* earlier product or ratio.
C14_SequentialInOrder ==
  \A i \in 1..(Len(calls) - 1) : CallBefore(calls[i], calls[i + 1])

\* A run that went through two products, with a failed variant in between.
C14_Witness ==
  /\ pc = "returned"
  /\ Len(failures) = 1
  /\ failures[1].kind = "resize"
  /\ \E i \in DOMAIN calls : calls[i].productId = 2 /\ calls[i].op = "upload"
  /\ \E i \in DOMAIN calls : calls[i].productId = 1 /\ calls[i].op = "overlay"

\* The base-image acquisition calls made for products, in order.
AcquisitionCalls ==
  SelectSeq(calls, LAMBDA c : c.productId # NoProduct /\ c.op \in AcquisitionKinds)

\* C15: for each product at most one base-image acquisition call is made,
\* and exactly one before any of its variants is worked on; it is the
\* download of the first entry of existingAssets if existingAssets is
\* non-empty and generateImage otherwise: generateImage is never called for a
\* product with existing assets, and no other entry is downloaded.
C15_OneAcquisitionCall ==
  LET acq == AcquisitionCalls
  IN /\ \A i \in DOMAIN acq : \A j \in DOMAIN acq :
          i # j => acq[i].productId # acq[j].productId
     /\ \A i \in DOMAIN calls :
          (calls[i].productId # NoProduct /\ calls[i].op \in VariantKinds) =>
            \E j \in DOMAIN acq : acq[j].productId = calls[i].productId
     /\ (pc = "returned" /\ failures = <<>>) =>
          \A p \in Products : \E j \in DOMAIN acq : acq[j].productId = p
     /\ \A i \in DOMAIN acq :
          IF existing[acq[i].productId]
          THEN acq[i].op = "download" /\ acq[i].entry = FirstEntry
          ELSE acq[i].op = "generateImage"

\* A run over a product with an existing asset and a product without one.
C15_Witness ==
  /\ pc = "returned"
  /\ existing[1]
  /\ ~existing[2]
  /\ \E i \in DOMAIN calls : calls[i].productId = 1 /\ calls[i].op = "download"
  /\ \E i \in DOMAIN calls : calls[i].productId = 2 /\ calls[i].op = "generateImage"

\* ------------------------------------------------------------ the server
\* The variables of one pipeline run.
pipelineVars == <<numProducts, existing, logoMode, hasCallback, useAIText, pc,
                  pi, ri, logoBuffer, assets, errors, events, calls, failures,
                  caught, thrown, result>>

\* The state the server's handlers leave alone.
notServer == <<pipelineVars, storeVars, overlayVars, layoutVars, adapterVars>>

\* No pipeline run is examined step by step.
PipelineIdle ==
  /\ numProducts = MinProducts
  /\ existing = [p \in 1..MinProducts |-> FALSE]
  /\ logoMode = "none"
  /\ hasCallback = FALSE
  /\ useAIText = FALSE
  /\ pc = "logo"
  /\ pi = 1
  /\ ri = 1
  /\ logoBuffer = FALSE
  /\ assets = <<>>
  /\ errors = <<>>
  /\ events = <<>>
  /\ calls = <<>>
  /\ failures = <<>>
  /\ caught = 0
  /\ thrown = 0
  /\ result = None

\* Map.prototype.set(key, value) on a Map held as a set of <<key, value>>.
MapSet(map, key, value) == {e \in map : e[1] # key} \cup {<<key, value>>}

\* Map.prototype.delete(key)
MapDelete(map, key) == {e \in map : e[1] # key}

\* setWebSocket(campaignId, ws)
setWebSocket(campaignId, ws) == MapSet(activeConnections, campaignId, ws)

\* removeWebSocket(campaignId)
removeWebSocket(campaignId) == MapDelete(activeConnections, campaignId)

\* The socket the server accepts next.
NextSocket == Len(SelectSeq([i \in Sockets |-> i],
                            LAMBDA w : readyState[w] # "CONNECTING")) + 1

\* wss.on('connection') with a campaignId in the URL: the socket is
\* registered and its close handler installed.
Connect(campaignId) ==
  /\ NextSocket \in Sockets
  /\ activeConnections' = setWebSocket(campaignId, NextSocket)
  /\ readyState' = [readyState EXCEPT ![NextSocket] = "OPEN"]
  /\ socketCampaign' = [socketCampaign EXCEPT ![NextSocket] = campaignId]
  /\ connectOrder' = Append(connectOrder, NextSocket)
  /\ UNCHANGED <<inFlight, response, lastEvent, notServer>>

\* wss.on('connection') without a campaignId: ws.close(), nothing registered.
ConnectWithoutCampaign ==
  /\ NextSocket \in Sockets
  /\ readyState' = [readyState EXCEPT ![NextSocket] = "CLOSED"]
  /\ UNCHANGED <<activeConnections, socketCampaign, connectOrder, inFlight,
                 response, lastEvent, notServer>>

\* ws.on('close') of a registered socket.
Close(ws) ==
  /\ readyState[ws] = "OPEN"
  /\ readyState' = [readyState EXCEPT ![ws] = "CLOSED"]
  /\ activeConnections' = removeWebSocket(socketCampaign[ws])
  /\ UNCHANGED <<socketCampaign, connectOrder, inFlight, response, lastEvent, notServer>>

\* POST /generate with a brief that validateCampaignBrief accepts: execute is
\* started in the background and 202 is returned.
Generate(campaignId) ==
  /\ Len(inFlight) < MaxRuns
  /\ inFlight' = Append(inFlight, campaignId)
  /\ response' = 202
  /\ UNCHANGED <<activeConnections, readyState, socketCampaign, connectOrder,
                 lastEvent, notServer>>

\* POST /generate with a brief that validateCampaignBrief rejects.
GenerateInvalid ==
  /\ response' = 400
  /\ response # 400
  /\ UNCHANGED <<activeConnections, readyState, socketCampaign, connectOrder,
                 inFlight, lastEvent, notServer>>

\* The promise of the i-th run in flight settles.
Settle(i) ==
  /\ i \in DOMAIN inFlight
  /\ inFlight' = [k \in 1..(Len(inFlight) - 1) |->
                    IF k < i THEN inFlight[k] ELSE inFlight[k + 1]]
  /\ UNCHANGED <<activeConnections, readyState, socketCampaign, connectOrder,
                 response, lastEvent, notServer>>

\* Map.prototype.get(key): the value, NoSocket for undefined.
MapGet(map, key) ==
  IF \E e \in map : e[1] = key
  THEN (CHOOSE e \in map : e[1] = key)[2]
  ELSE NoSocket

\* progressCallback(event) of the i-th run in flight: the event is sent to the
\* socket registered for the run's campaignId if there is one and it is
\* open, and dropped otherwise.
Emit(i) ==
  /\ i \in DOMAIN inFlight
  /\ LET ws == MapGet(activeConnections, inFlight[i])
     IN lastEvent' =
          [campaignId |-> inFlight[i],
           socket |-> IF ws # NoSocket /\ readyState[ws] = "OPEN"
                      THEN ws ELSE NoSocket]
  /\ UNCHANGED <<activeConnections, readyState, socketCampaign, connectOrder,
                 inFlight, response, notServer>>

ServerNext ==
  \/ \E c \in Campaigns : Connect(c)
  \/ ConnectWithoutCampaign
  \/ \E w \in Sockets : Close(w)
  \/ \E c \in Campaigns : Generate(c)
  \/ GenerateInvalid
  \/ \E i \in 1..MaxRuns : Settle(i)
  \/ \E i \in 1..MaxRuns : Emit(i)

\* A server that has just started.
InitServer ==
  /\ PipelineIdle /\ ServerInit /\ StoreIdle /\ OverlayIdle /\ LayoutIdle
  /\ AdapterIdle

SpecServer == InitServer /\ [][ServerNext]_vars

\* ------------------------------------------------------- claims C16 - C17
\* The sockets registered for campaign c.
Registered(c) == {e[2] : e \in {x \in activeConnections : x[1] = c}}

\* The socket that connected last for campaign c (NoSocket if none did).
LastConnected(c) ==
  LET ws == {i \in DOMAIN connectOrder : socketCampaign[connectOrder[i]] = c}
  IN IF ws = {} THEN NoSocket
     ELSE connectOrder[CHOOSE i \in ws : \A j \in ws : j <= i]

\* C16 (as claimed): under any interleaving of connects and disconnects the
\* registry holds at most one registration per campaignId, a connect or
\* disconnect for one campaignId never changes the entry of another, and
\* after a reconnect the sink registered for a campaignId is the most
\* recently connected one for as long as that one is open.
C16_RegistrySafe ==
  /\ [](\A c \in Campaigns : Cardinality(Registered(c)) <= 1)
  /\ [][\A c \in Campaigns :
          Registered(c)' # Registered(c) =>
            \E w \in Sockets : /\ readyState'[w] # readyState[w]
                               /\ socketCampaign'[w] = c]_vars
  /\ [](\A c \in Campaigns :
          LET w == LastConnected(c)
          IN (w # NoSocket /\ readyState[w] = "OPEN") => Registered(c) = {w})

\* C17 (as claimed): no two pipeline runs that have started and not yet
\* finished have the same campaignId.
C17_UniqueInFlight ==
  \A i \in DOMAIN inFlight : \A j \in DOMAIN inFlight :
    i # j => inFlight[i] # inFlight[j]

\* C28 (as claimed): the close of a connection removes only its own
\* registration, so the close of a superseded connection leaves the later
\* connection for the same campaignId registered, and every event a run emits
\* for a campaignId while the connection that connected last for it is open
\* is sent to that connection.
C28_CloseRemovesOwn ==
  [][/\ \A a \in Sockets : \A b \in Sockets \ {a} :
         (/\ readyState[a] = "OPEN" /\ readyState'[a] = "CLOSED"
          /\ <<socketCampaign[a], b>> \in activeConnections)
           => <<socketCampaign[a], b>> \in activeConnections'
     /\ \A i \in 1..MaxRuns :
         Emit(i) =>
           LET b == LastConnected(inFlight[i])
           IN (b # NoSocket /\ readyState[b] = "OPEN") => lastEvent'.socket = b]_vars

\* ------------------------------------------------------------- the store
\* Strings are sequences of one-character strings.

\* The state the storage leaves alone.
notStore == <<pipelineVars, serverVars, overlayVars, layoutVars, adapterVars>>

\* The characters ids are made of: z.string() accepts any.
IdChars == {"a", "/"}

\* The campaignIds and productIds explored: every non-empty string of at
\* most MaxIdLen characters.
Ids == UNION {[1..n -> IdChars] : n \in 1..MaxIdLen}

\* The characters of an aspect-ratio label.
RatioChars(label) ==
  CASE label = "1:1" -> <<"1", ":", "1">>
    [] label = "9:16" -> <<"9", ":", "1", "6">>
    [] label = "16:9" -> <<"1", "6", ":", "9">>

Digits == <<"0", "1", "2", "3", "4", "5", "6", "7", "8", "9">>

DigitChars == {Digits[i] : i \in DOMAIN Digits}

\* `${timestamp}`: the decimal digits of a number.
RECURSIVE NumberToString(_)
NumberToString(n) ==
  IF n < Len(Digits) THEN <<Digits[n + 1]>>
  ELSE NumberToString(n \div Len(Digits)) \o <<Digits[(n % Len(Digits)) + 1]>>

\* aspectRatio.replace(/:/g, 'x')
ReplaceColons(str) == [i \in DOMAIN str |-> IF str[i] = ":" THEN "x" ELSE str[i]]

\* The default extension of generateAssetFilename.
Extension == <<"p", "n", "g">>

\* generateAssetFilename(campaignId, productId, aspectRatio), timestamp being
\* the value of Date.now() it reads.
generateAssetFilename(campaignId, productId, aspectRatio, timestamp) ==
  campaignId \o <<"/">> \o productId \o <<"/">> \o ReplaceColons(aspectRatio)
    \o <<"_">> \o NumberToString(timestamp) \o <<".">> \o Extension

\* str.split('/')
RECURSIVE Split(_)
Split(str) ==
  IF \A i \in DOMAIN str : str[i] # "/" THEN <<str>>
  ELSE LET k == CHOOSE i \in DOMAIN str :
                  str[i] = "/" /\ \A j \in 1..(i - 1) : str[j] # "/"
       IN <<SubSeq(str, 1, k - 1)>> \o Split(SubSeq(str, k + 1, Len(str)))

\* The segments joined by '/'.
RECURSIVE Join(_)
Join(parts) ==
  IF parts = <<>> THEN <<>>
  ELSE IF Len(parts) = 1 THEN parts[1]
  ELSE parts[1] \o <<"/">> \o Join(Tail(parts))

\* path.join(this.localPath, filePath), relative to localPath: empty segments
\* are dropped.
PathJoin(filePath) == Join(SelectSeq(Split(filePath), LAMBDA seg : seg # <<>>))

\* this.useLocal = !bucket
useLocal == bucket = <<>>

\* The key upload(fileBuffer, filePath) writes to.
UploadKey(filePath) == IF useLocal THEN PathJoin(filePath) ELSE filePath

\* The value upload(fileBuffer, filePath) returns.
UploadResult(filePath) ==
  IF useLocal THEN filePath
  ELSE <<"s", "3", ":", "/", "/">> \o bucket \o <<"/">> \o filePath

\* The number of digits str starts with.
RECURSIVE LeadingDigits(_)
LeadingDigits(str) ==
  IF str # <<>> /\ Head(str) \in DigitChars THEN 1 + LeadingDigits(Tail(str))
  ELSE 0

\* The label the gallery shows for an aspect ratio it cannot parse.
Unknown == <<"u", "n", "k", "n", "o", "w", "n">>

\* filename.match(/^(\d+)x(\d+)_/) turned into `${m[1]}:${m[2]}`, or 'unknown'.
MatchRatio(filename) ==
  LET w == LeadingDigits(filename)
      rest == SubSeq(filename, w + 2, Len(filename))
      h == LeadingDigits(rest)
  IN IF /\ w >= 1
        /\ Len(filename) > w
        /\ filename[w + 1] = "x"
        /\ h >= 1
        /\ Len(rest) > h
        /\ rest[h + 1] = "_"
     THEN SubSeq(filename, 1, w) \o <<":">> \o SubSeq(rest, 1, h)
     ELSE Unknown

\* The gallery's reading of a file path: its campaignId, productId and
\* aspect ratio (parts.length >= 3), or None.
GalleryEntry(file) ==
  LET parts == Split(file)
  IN IF Len(parts) >= 3
     THEN [campaignId |-> parts[1], productId |-> parts[2],
           aspectRatio |-> MatchRatio(parts[3])]
     ELSE None

\* A store constructed with or without a bucket name.
StoreInit ==
  /\ now = 0
  /\ bucket \in {<<>>, <<"b">>}
  /\ objects = {}
  /\ stored = <<>>

\* Time passes.
Tick ==
  /\ now < MaxTime
  /\ now' = now + 1
  /\ UNCHANGED <<bucket, objects, stored, notStore>>

\* The storing of one variant by execute: generateAssetFilename, upload, and
\* the GeneratedAsset made of the value upload returns.
StoreVariant(campaignId, productId, label) ==
  /\ Len(stored) < MaxUploads
  /\ LET filename == generateAssetFilename(campaignId, productId,
                                           RatioChars(label), now)
     IN /\ objects' = MapSet(objects, UploadKey(filename), Len(stored) + 1)
        /\ stored' = Append(stored,
             [campaignId |-> campaignId, productId |-> productId,
              aspectRatio |-> label, timestamp |-> now,
              path |-> UploadResult(filename)])
  /\ UNCHANGED <<now, bucket, notStore>>

StoreNext ==
  \/ Tick
  \/ \E c \in Ids : \E p \in Ids : \E label \in RatioLabels :
       StoreVariant(c, p, label)

\* A store that has just been constructed.
InitStore ==
  /\ PipelineIdle /\ ServerInit /\ StoreInit /\ OverlayIdle /\ LayoutIdle
  /\ AdapterIdle

SpecStore == InitStore /\ [][StoreNext]_vars

\* ------------------------------------------------------- claims C18 - C19
\* The four components a path is said to be unique for.
Variant(a) == <<a.campaignId, a.productId, a.aspectRatio, a.timestamp>>

\* C18 (as claimed): two variants that differ in campaignId, productId,
\* aspect ratio or timestamp never have the same GeneratedAsset path, and no
\* stored object of a variant is overwritten by a different variant.
C18_PathUnique ==
  /\ \A i \in DOMAIN stored : \A j \in DOMAIN stored :
       Variant(stored[i]) # Variant(stored[j]) => stored[i].path # stored[j].path
  /\ \A i \in DOMAIN stored :
       \E e \in objects : Variant(stored[e[2]]) = Variant(stored[i])

\* C19 (as claimed): every GeneratedAsset path has the three segments
\* campaignId, productId and {W}x{H}_{timestamp}.{ext}, and the gallery's
\* pattern applied to the third segment recovers the aspect-ratio label.
C19_PathConvention ==
  \A i \in DOMAIN stored :
    LET a == stored[i]
        parts == Split(a.path)
    IN /\ Len(parts) = 3
       /\ parts[1] = a.campaignId
       /\ parts[2] = a.productId
       /\ parts[3] = ReplaceColons(RatioChars(a.aspectRatio)) \o <<"_">>
                       \o NumberToString(a.timestamp) \o <<".">> \o Extension
       /\ GalleryEntry(a.path).aspectRatio = RatioChars(a.aspectRatio)

\* ------------------------------------------------- the overlay's colours
\* The state addTextOverlay leaves alone.
notOverlay == <<pipelineVars, serverVars, storeVars, layoutVars, adapterVars>>

\* BACKGROUND_STYLES
BACKGROUND_STYLES == <<
  [bg |-> <<"r", "g", "b", "a", "(", "0", ",", " ", "0", ",", " ", "0", ",", " ", "0", ".", "6", "5", ")">>,
   color |-> <<"#", "F", "F", "F", "F", "F", "F">>],
  [bg |-> <<"r", "g", "b", "a", "(", "0", ",", " ", "0", ",", " ", "0", ",", " ", "0", ".", "5", "0", ")">>,
   color |-> <<"#", "F", "F", "F", "F", "F", "F">>],
  [bg |-> <<"r", "g", "b", "a", "(", "0", ",", " ", "0", ",", " ", "0", ",", " ", "0", ".", "7", "5", ")">>,
   color |-> <<"#", "F", "F", "F", "F", "F", "F">>],
  [bg |-> <<"r", "g", "b", "a", "(", "2", "0", ",", " ", "2", "0", ",", " ", "3", "0", ",", " ", "0", ".", "7", "0", ")">>,
   color |-> <<"#", "F", "F", "F", "F", "F", "F">>],
  [bg |-> <<"r", "g", "b", "a", "(", "2", "5", "5", ",", " ", "2", "5", "5", ",", " ", "2", "5", "5", ",", " ", "0", ".", "8", "5", ")">>,
   color |-> <<"#", "0", "0", "0", "0", "0", "0">>],
  [bg |-> <<"r", "g", "b", "a", "(", "2", "5", "5", ",", " ", "2", "5", "5", ",", " ", "2", "5", "5", ",", " ", "0", ".", "7", "0", ")">>,
   color |-> <<"#", "1", "a", "1", "a", "1", "a">>],
  [bg |-> <<"r", "g", "b", "a", "(", "2", "5", "0", ",", " ", "2", "5", "0", ",", " ", "2", "5", "0", ",", " ", "0", ".", "8", "0", ")">>,
   color |-> <<"#", "2", "2", "2", "2", "2", "2">>],
  [bg |-> <<"r", "g", "b", "a", "(", "1", "0", ",", " ", "1", "0", ",", " ", "4", "0", ",", " ", "0", ".", "7", "5", ")">>,
   color |-> <<"#", "F", "F", "F", "F", "F", "F">>],
  [bg |-> <<"r", "g", "b", "a", "(", "6", "0", ",", " ", "6", "0", ",", " ", "8", "0", ",", " ", "0", ".", "7", "0", ")">>,
   color |-> <<"#", "F", "F", "F", "F", "F", "F">>],
  [bg |-> <<"r", "g", "b", "a", "(", "4", "0", ",", " ", "4", "0", ",", " ", "4", "0", ",", " ", "0", ".", "8", "0", ")">>,
   color |-> <<"#", "F", "F", "F", "F", "F", "F">>] >>

White == <<"#", "F", "F", "F", "F", "F", "F">>

Black == <<"#", "0", "0", "0", "0", "0", "0">>

\* The brand colours explored: the extremes, the primaries, the greys around
\* the threshold, two colours of luminance 128, one written in lower case
\* and one written without '#'.
BrandColors ==
  {<<"#", "0", "0", "0", "0", "0", "0">>,
   <<"#", "F", "F", "F", "F", "F", "F">>,
   <<"#", "8", "0", "8", "0", "8", "0">>,
   <<"#", "7", "F", "7", "F", "7", "F">>,
   <<"#", "8", "1", "8", "1", "8", "1">>,
   <<"#", "0", "1", "B", "D", "9", "3">>,
   <<"#", "F", "F", "0", "0", "0", "0">>,
   <<"#", "0", "0", "F", "F", "0", "0">>,
   <<"#", "0", "0", "0", "0", "F", "F">>,
   <<"#", "f", "f", "c", "c", "0", "0">>,
   <<"F", "F", "F", "F", "F", "F">>}

\* A colour that is not supplied is undefined or empty: both are falsy.
NotSupplied == <<>>

\* hexColor.replace('#', ''): the first '#' is removed.
RemoveHash(str) ==
  IF \A i \in DOMAIN str : str[i] # "#" THEN str
  ELSE LET k == CHOOSE i \in DOMAIN str :
                  str[i] = "#" /\ \A j \in 1..(i - 1) : str[j] # "#"
       IN SubSeq(str, 1, k - 1) \o SubSeq(str, k + 1, Len(str))

\* The value of a hexadecimal digit.
HexDigit(ch) ==
  CASE ch = "0" -> 0 [] ch = "1" -> 1 [] ch = "2" -> 2 [] ch = "3" -> 3
    [] ch = "4" -> 4 [] ch = "5" -> 5 [] ch = "6" -> 6 [] ch = "7" -> 7
    [] ch = "8" -> 8 [] ch = "9" -> 9
    [] ch \in {"a", "A"} -> 10 [] ch \in {"b", "B"} -> 11
    [] ch \in {"c", "C"} -> 12 [] ch \in {"d", "D"} -> 13
    [] ch \in {"e", "E"} -> 14 [] ch \in {"f", "F"} -> 15

\* parseInt(hex.substring(from, from + 2), 16) of two hexadecimal digits;
\* from counts from 0.
ParseChannel(hex, from) ==
  HexDigit(hex[from + 1]) * 16 + HexDigit(hex[from + 2])

\* The r, g, b of a colour.
Rgb(hexColor) ==
  LET hex == RemoveHash(hexColor)
  IN <<ParseChannel(hex, 0), ParseChannel(hex, 2), ParseChannel(hex, 4)>>

\* 1000 times the exact value of 0.299*r + 0.587*g + 0.114*b.
Luminance1000(rgb) == 299 * rgb[1] + 587 * rgb[2] + 114 * rgb[3]

\* The colours for which 0.299*r + 0.587*g + 0.114*b, evaluated from left to
\* right in IEEE-754 double precision, is 127.99999999999999 although the
\* exact sum is 128. For every other colour the double sum and the exact sum
\* lie on the same side of 128 (the other 65 colours of exact luminance 128
\* sum to 128 in doubles too).
RoundsBelow128 ==
  {<<8, 200, 72>>, <<12, 190, 113>>, <<19, 201, 38>>, <<23, 191, 79>>,
   <<24, 160, 236>>, <<34, 192, 45>>, <<38, 182, 86>>, <<42, 172, 127>>,
   <<49, 183, 52>>, <<53, 173, 93>>, <<57, 163, 134>>, <<64, 174, 59>>,
   <<72, 154, 141>>, <<75, 175, 25>>, <<79, 165, 66>>, <<87, 145, 148>>,
   <<90, 166, 32>>, <<94, 156, 73>>, <<98, 146, 114>>, <<102, 136, 155>>,
   <<105, 157, 39>>, <<113, 137, 121>>, <<116, 158, 5>>, <<117, 127, 162>>,
   <<120, 148, 46>>, <<128, 128, 128>>, <<131, 149, 12>>, <<132, 118, 169>>,
   <<135, 139, 53>>, <<143, 119, 135>>, <<146, 140, 19>>, <<154, 120, 101>>,
   <<158, 110, 142>>, <<161, 131, 26>>, <<169, 111, 108>>, <<176, 122, 33>>,
   <<177, 91, 190>>, <<184, 102, 115>>, <<195, 103, 81>>, <<199, 93, 122>>,
   <<202, 114, 6>>, <<210, 94, 88>>, <<225, 85, 95>>, <<240, 76, 102>>,
   <<251, 77, 68>>, <<255, 67, 109>>}

\* isColorDark(hexColor): luminance < 128 in double precision.
isColorDark(hexColor) ==
  \/ Luminance1000(Rgb(hexColor)) < 128 * 1000
  \/ Rgb(hexColor) \in RoundsBelow128

\* finalBackgroundColor and finalFontColor of addTextOverlay for
\* brandColors = {primary: bg, secondary: fg} and the style selected.
BrandedColors(bg, fg, style) ==
  IF bg # NotSupplied \/ fg # NotSupplied
  THEN IF bg # NotSupplied
       THEN [bg |-> bg,
             color |-> IF fg # NotSupplied THEN fg
                       ELSE IF isColorDark(bg) THEN White ELSE Black]
       ELSE [bg |-> fg,
             color |-> IF isColorDark(fg) THEN White ELSE Black]
  ELSE style

\* A call of addTextOverlay with any of the brand colours, or none.
OverlayInit ==
  /\ primary \in BrandColors \cup {NotSupplied}
  /\ secondary \in BrandColors \cup {NotSupplied}
  /\ finalFontColor = <<>>
  /\ finalBackgroundColor = <<>>
  /\ overlaid = FALSE

\* addTextOverlay up to the choice of its colours; i is the index
\* getRandomBackgroundStyle draws.
ChooseColors(i) ==
  /\ ~overlaid
  /\ LET final == BrandedColors(primary, secondary, BACKGROUND_STYLES[i])
     IN /\ finalBackgroundColor' = final.bg
        /\ finalFontColor' = final.color
  /\ overlaid' = TRUE
  /\ UNCHANGED <<primary, secondary, notOverlay>>

OverlayNext == \E i \in DOMAIN BACKGROUND_STYLES : ChooseColors(i)

\* A call of addTextOverlay that is about to choose its colours.
InitOverlay ==
  /\ PipelineIdle /\ ServerInit /\ StoreIdle /\ OverlayInit /\ LayoutIdle
  /\ AdapterIdle

SpecOverlay == InitOverlay /\ [][OverlayNext]_vars

\* ------------------------------------------------------------- claim C20
\* The background the claim names: the primary brand colour, or the
\* secondary one if no primary is supplied.
BrandBackground == IF primary # NotSupplied THEN primary ELSE secondary

\* C20 (as claimed): whenever a primary, a secondary or both brand colours
\* are supplied, the overlay background is the primary (or else the
\* secondary) colour and the text is white if that background's luminance
\* 0.299R + 0.587G + 0.114B is less than 128, and black otherwise.
C20_TextByLuminance ==
  (overlaid /\ (primary # NotSupplied \/ secondary # NotSupplied)) =>
    /\ finalBackgroundColor = BrandBackground
    /\ finalFontColor =
         IF Luminance1000(Rgb(BrandBackground)) < 128 * 1000 THEN White ELSE Black

\* ------------------------------------------------ the overlay's geometry
\* A text is held as the sequence of the lengths of its words, which is all
\* the wrapping and the band depend on. Quantities with a fractional part
\* are held in tenths (names ending in 10) or twentieths (20) of a pixel.

\* The state the geometry of addTextOverlay leaves alone.
notLayout == <<pipelineVars, serverVars, storeVars, overlayVars, adapterVars>>

\* padding = 20
Padding == 20

\* The word lengths explored.
WordLengths == {5, 10, 19, 20, 29, 30, 31}

\* The texts explored: one to MaxWords words separated by single spaces.
Texts == UNION {[1..n -> WordLengths] : n \in 1..MaxWords}

\* The sizes of the images the pipeline composes on.
ImageSizes ==
  {[width |-> 1080, height |-> 1080], [width |-> 1080, height |-> 1920],
   [width |-> 1920, height |-> 1080]}

\* The font sizes explored: Math.floor(aspectRatio.width / 20) for the
\* widths 1080 and 1920, the size of the wrapping example, and a headline
\* size.
FontSizes == {54, 60, 96, 200}

\* The logos explored: a square one and a very wide one.
Logos ==
  {[present |-> TRUE, width |-> 100, height |-> 100],
   [present |-> TRUE, width |-> 3200, height |-> 100]}

Max(a, b) == IF a >= b THEN a ELSE b

Min(a, b) == IF a <= b THEN a ELSE b

RECURSIVE Sum(_)
Sum(seq) == IF seq = <<>> THEN 0 ELSE Head(seq) + Sum(Tail(seq))

\* text.length
TextLength(words) == Sum(words) + Len(words) - 1

\* Math.floor(width / (fontSize * 0.6))
CharsPerLine(width, size) == (10 * width) \div (6 * size)

\* testLine.length <= maxCharsPerLine, tested without the equality.
Fits_Strict(testLength, maxChars) == testLength < maxChars

\* testLine.length <= maxCharsPerLine
Fits(testLength, maxChars) == testLength <= maxChars

\* The for loop over words: currentLine is held by its length (the empty
\* string is the one of length 0), lines by the lengths of its entries.
RECURSIVE WrapWords(_, _, _, _)
WrapWords(words, currentLine, lines, maxChars) ==
  IF words = <<>>
  THEN IF currentLine > 0 THEN Append(lines, currentLine) ELSE lines
  ELSE LET word == Head(words)
           testLine == IF currentLine > 0 THEN currentLine + 1 + word ELSE word
       IN IF Fits(testLine, maxChars)
          THEN WrapWords(Tail(words), testLine, lines, maxChars)
          ELSE WrapWords(Tail(words), word,
                         IF currentLine > 0 THEN Append(lines, currentLine)
                         ELSE lines,
                         maxChars)

\* The width the wrapping of image-utils.ts divides by the glyph width.
WrapWidth(img, lg) == img.width

\* The longest of the lines ('' if there is none).
RECURSIVE Longest(_)
Longest(lines) ==
  IF lines = <<>> THEN 0 ELSE Max(Head(lines), Longest(Tail(lines)))

\* The quantities addTextOverlay computes between reading the image's
\* metadata and building the SVG and the logo layer.
ComputeLayout(words, img, size, pos, lg, lgPos) ==
  LET charsPerLine == CharsPerLine(img.width, size)
      estimatedLines == (TextLength(words) + charsPerLine - 1) \div charsPerLine
      lineHeight10 == 14 * size
      boxHeight10 == Max(estimatedLines * lineHeight10 + 10 * (Padding * 2) + 5 * size,
                         25 * size)
      y10 == CASE pos = "bottom" -> 10 * img.height - boxHeight10
               [] pos = "center" -> 10 * ((10 * img.height - boxHeight10) \div 20)
               [] pos = "top" -> 0
      yPosition10 == Max(0, y10)
      maxCharsPerLine == CharsPerLine(WrapWidth(img, lg), size)
      lines == WrapWords(words, 0, <<>>, maxCharsPerLine)
      logoHeight == IF lg.present THEN (15 * size) \div 10 ELSE 0
      logoWidth == IF lg.present
                   THEN (logoHeight * Max(lg.width, 1)) \div Max(lg.height, 1)
                   ELSE 0
      logoSpacing == IF lg.present THEN (8 * size) \div 10 ELSE 0
      textStartY20 == 2 * yPosition10 + (boxHeight10 - Len(lines) * lineHeight10)
                        + 20 * size
      estimatedTextWidth10 == Longest(lines) * 6 * size
      halfText == estimatedTextWidth10 \div 20
      totalContentWidth10 == IF lg.present
                             THEN 10 * (logoWidth + logoSpacing) + estimatedTextWidth10
                             ELSE estimatedTextWidth10
      contentStartX == (10 * img.width - totalContentWidth10) \div 20
      logoX0 == IF lgPos = "prefix" THEN Max(Padding, contentStartX)
                ELSE contentStartX + halfText + halfText + logoSpacing
      textX0 == IF lgPos = "prefix"
                THEN logoX0 + logoWidth + logoSpacing + halfText
                ELSE contentStartX + halfText
      logoX == IF lg.present
               THEN Max(Padding, Min(logoX0, img.width - logoWidth - Padding))
               ELSE 0
      textX == IF lg.present
               THEN Max(halfText + Padding,
                        Min(textX0, img.width - halfText - Padding))
               ELSE img.width \div 2
      logoY10 == IF lg.present
                 THEN yPosition10 + 10 * ((boxHeight10 - 10 * logoHeight) \div 20)
                 ELSE 0
  IN [maxCharsPerLine |-> maxCharsPerLine, estimatedLines |-> estimatedLines,
      lines |-> lines, boxHeight10 |-> boxHeight10, yPosition10 |-> yPosition10,
      textX |-> textX, textStartY20 |-> textStartY20,
      estimatedTextWidth10 |-> estimatedTextWidth10, logoWidth |-> logoWidth,
      logoHeight |-> logoHeight, logoX |-> logoX, logoY10 |-> logoY10,
      logoSpacing |-> logoSpacing, wrapWidth |-> WrapWidth(img, lg)]

\* A call of addTextOverlay with any of the texts, images, font sizes,
\* positions and logos.
LayoutInit ==
  /\ text \in Texts
  /\ image \in ImageSizes
  /\ fontSize \in FontSizes
  /\ position \in {"top", "center", "bottom"}
  /\ logo \in Logos \cup {LogoAbsent}
  /\ logoPosition \in IF logo.present THEN {"prefix", "suffix"} ELSE {"prefix"}
  /\ layout = NoLayout
  /\ laidOut = FALSE

\* addTextOverlay from the image's metadata to the composite layers.
LayOut ==
  /\ ~laidOut
  /\ layout' = ComputeLayout(text, image, fontSize, position, logo, logoPosition)
  /\ laidOut' = TRUE
  /\ UNCHANGED <<text, image, fontSize, position, logo, logoPosition, notLayout>>

LayoutNext == LayOut

InitLayout ==
  /\ PipelineIdle /\ ServerInit /\ StoreIdle /\ OverlayIdle /\ LayoutInit
  /\ AdapterIdle

SpecLayout == InitLayout /\ [][LayoutNext]_vars

\* ------------------------------------------------------- claims C21 - C24
\* The width the text is said to have available: the full image width, or
\* with a logo the image width minus logo width, spacing and padding.
AvailableWidth ==
  IF logo.present
  THEN image.width - layout.logoWidth - layout.logoSpacing - Padding
  ELSE image.width

\* C21 (as claimed): for every text, image width and font size, each line
\* the wrapping produces has at most
\* charsPerLine = floor(availableWidth / (fontSize x 0.6)) characters.
C21_LinesFit ==
  laidOut =>
    \A i \in DOMAIN layout.lines :
      layout.lines[i] <= CharsPerLine(AvailableWidth, fontSize)

\* The text is a sentence of 60 characters with no word longer than 30.
Sentence60 ==
  /\ TextLength(text) = 60
  /\ \A i \in DOMAIN text : text[i] >= 1 /\ text[i] <= 30

\* The first k words of the text, joined by spaces, have 29 or 30 characters.
SplitsInTwo ==
  \E k \in DOMAIN text : TextLength(SubSeq(text, 1, k)) \in {29, 30}

\* C22 (as claimed): with imageWidth 1080 and fontSize 60, charsPerLine is
\* 30, "Hello World" wraps to one line and every 60-character sentence with
\* no word longer than 30 characters wraps to exactly 2 lines.
C22_SixtyCharsTwoLines ==
  (laidOut /\ image.width = 1080 /\ fontSize = 60) =>
    /\ layout.maxCharsPerLine = 30
    /\ text = <<5, 5>> => Len(layout.lines) = 1
    /\ Sentence60 => Len(layout.lines) = 2

\* C22 (amended): with imageWidth 1080 and fontSize 60, charsPerLine is 30
\* and "Hello World" wraps to the one line of 11 characters; every
\* 60-character sentence with no word longer than 30 characters is
\* estimated at 2 lines, and wraps to 2 lines if some leading words make up
\* 29 or 30 characters, and to 3 lines otherwise.
C22_SixtyCharsTwoOrThreeLines ==
  (laidOut /\ image.width = 1080 /\ fontSize = 60) =>
    /\ layout.maxCharsPerLine = 30
    /\ text = <<5, 5>> => layout.lines = <<11>>
    /\ Sentence60 =>
         /\ layout.estimatedLines = 2
         /\ Len(layout.lines) = IF SplitsInTwo THEN 2 ELSE 3
         /\ \A i \in DOMAIN layout.lines : layout.lines[i] <= 30

\* A 60-character sentence of three words that took three lines.
C22_Witness ==
  /\ laidOut
  /\ image.width = 1080
  /\ fontSize = 60
  /\ Sentence60
  /\ Len(text) = 3
  /\ Len(layout.lines) = 3
  /\ layout.estimatedLines = 2

\* C23 (as claimed): the width used to compute charsPerLine for wrapping is
\* the full image width without a logo, and the image width minus logo
\* width, spacing and padding with one.
C23_WrapWidth == laidOut => layout.wrapWidth = AvailableWidth

\* C24 (as claimed): the band lies within the image (y >= 0 and
\* y + bandHeight <= imageHeight), and so do every text line (centred on
\* textX, one font size high above its baseline) and the logo.
C24_WithinImage ==
  laidOut =>
    /\ layout.yPosition10 >= 0
    /\ layout.yPosition10 + layout.boxHeight10 <= 10 * image.height
    /\ \A i \in DOMAIN layout.lines :
         LET half10 == layout.lines[i] * 3 * fontSize
             baseline20 == layout.textStartY20 + (i - 1) * 28 * fontSize
         IN /\ 10 * layout.textX - half10 >= 0
            /\ 10 * layout.textX + half10 <= 10 * image.width
            /\ baseline20 - 20 * fontSize >= 0
            /\ baseline20 <= 20 * image.height
    /\ logo.present =>
         /\ layout.logoX >= 0
         /\ layout.logoX + layout.logoWidth <= image.width
         /\ layout.logoY10 >= 0
         /\ layout.logoY10 + 10 * layout.logoHeight <= 10 * image.height


\* ---------------------------------------------------------------------------
\* The storage adapters of the cloud providers (services/cloud).
\* ---------------------------------------------------------------------------

notAdapter == <<pipelineVars, serverVars, storeVars, overlayVars, layoutVars>>

\* The depth of nested calls at which the engine raises
\* "RangeError: Maximum call stack size exceeded".
MaxStack == 3

Providers == {"aws", "azure", "gcp"}

\* The bucket / container variable: not set, set to the empty string, or set
\* to a name.
EnvValues ==
  {Unset} \cup {[set |-> TRUE, value |-> v] : v \in {"", "local", "campaign-assets"}}

StorageOperations == {"upload", "download", "exists", "list"}

\* How the fs call or the SDK call of an operation ends: it succeeds, it
\* reports that the object is absent, or it fails otherwise (permissions,
\* credentials, network).
Underlyings == {"ok", "notFound", "error"}

\* process.env.X || 'local': an unset and an empty variable both give 'local'.
BucketFromEnv(env) ==
  IF ~env.set \/ env.value = "" THEN "local" ELSE env.value

\* The constructors: S3StorageService and AzureBlobStorageService use
\* !bucket, GCPCloudStorageService uses !bucketName || bucketName === 'local'.
UseLocal(p, name) ==
  IF p = "gcp" THEN name = "" \/ name = "local" ELSE name = ""

adapterUseLocal == UseLocal(provider, BucketFromEnv(bucketEnv))

\* What an operation gives once its fs or SDK call has ended with u: upload
\* and download rethrow, exists and list swallow every error.
Ending(op, u, okValue) ==
  CASE op = "upload" ->
         IF u = "ok" THEN [outcome |-> "returned", returned |-> okValue]
         ELSE [outcome |-> "raised", returned |-> None]
    [] op = "download" ->
         IF u = "ok" THEN [outcome |-> "returned", returned |-> "buffer"]
         ELSE [outcome |-> "raised", returned |-> None]
    [] op = "exists" ->
         [outcome |-> "returned",
          returned |-> IF u = "ok" THEN "true" ELSE "false"]
    [] op = "list" ->
         [outcome |-> "returned",
          returned |-> IF u = "ok" THEN "files" ELSE "[]"]

\* createCloudProviderFromEnv: a provider has been built from the environment.
AdapterInit ==
  /\ provider \in Providers
  /\ bucketEnv \in EnvValues
  /\ adapterPc = "ready"
  /\ operation = None
  /\ underlying = "ok"
  /\ selfCalls = 0
  /\ localCalls = 0
  /\ cloudCalls = 0
  /\ outcome = "none"
  /\ returned = None

\* A storage operation of the provider is called.
CallStorage(op, u) ==
  /\ adapterPc = "ready"
  /\ adapterPc' = "running"
  /\ operation' = op
  /\ underlying' = u
  /\ UNCHANGED <<provider, bucketEnv, selfCalls, localCalls, cloudCalls,
                 outcome, returned, notAdapter>>

\* The useLocal branch of the four operations, the same in the three adapters.
LocalOperation ==
  /\ adapterPc = "running"
  /\ adapterUseLocal
  /\ localCalls' = localCalls + 1
  /\ LET e == Ending(operation, underlying, "filePath")
     IN outcome' = e.outcome /\ returned' = e.returned
  /\ adapterPc' = "settled"
  /\ UNCHANGED <<provider, bucketEnv, operation, underlying, selfCalls,
                 cloudCalls, notAdapter>>

\* The else branch of S3StorageService: one command is sent to S3.
S3Operation ==
  /\ adapterPc = "running"
  /\ provider = "aws"
  /\ ~adapterUseLocal
  /\ cloudCalls' = cloudCalls + 1
  /\ LET e == Ending(operation, underlying, "s3url")
     IN outcome' = e.outcome /\ returned' = e.returned
  /\ adapterPc' = "settled"
  /\ UNCHANGED <<provider, bucketEnv, operation, underlying, selfCalls,
                 localCalls, notAdapter>>

\* The else branch of upload and download of the Azure and GCP adapters:
\* return this.upload(...) / return this.download(...), with useLocal the same.
SelfCall ==
  /\ adapterPc = "running"
  /\ provider \in {"azure", "gcp"}
  /\ ~adapterUseLocal
  /\ operation \in {"upload", "download"}
  /\ selfCalls < MaxStack
  /\ selfCalls' = selfCalls + 1
  /\ UNCHANGED <<provider, bucketEnv, adapterPc, operation, underlying,
                 localCalls, cloudCalls, outcome, returned, notAdapter>>

\* The nesting has used up the call stack: the innermost call throws a
\* RangeError, its catch rethrows and every outer promise rejects.
StackOverflow ==
  /\ adapterPc = "running"
  /\ provider \in {"azure", "gcp"}
  /\ ~adapterUseLocal
  /\ operation \in {"upload", "download"}
  /\ selfCalls = MaxStack
  /\ outcome' = "raised"
  /\ adapterPc' = "settled"
  /\ UNCHANGED <<provider, bucketEnv, operation, underlying, selfCalls,
                 localCalls, cloudCalls, returned, notAdapter>>

\* The else branch of exists and list of the Azure and GCP adapters: false
\* and [] without any call.
NotImplemented ==
  /\ adapterPc = "running"
  /\ provider \in {"azure", "gcp"}
  /\ ~adapterUseLocal
  /\ operation \in {"exists", "list"}
  /\ outcome' = "returned"
  /\ returned' = IF operation = "exists" THEN "false" ELSE "[]"
  /\ adapterPc' = "settled"
  /\ UNCHANGED <<provider, bucketEnv, operation, underlying, selfCalls,
                 localCalls, cloudCalls, notAdapter>>

AdapterNext ==
  \/ \E op \in StorageOperations, u \in Underlyings : CallStorage(op, u)
  \/ LocalOperation
  \/ S3Operation
  \/ SelfCall
  \/ StackOverflow
  \/ NotImplemented

\* A provider that has just been built from the environment.
InitAdapter ==
  /\ PipelineIdle /\ ServerInit /\ StoreIdle /\ OverlayIdle /\ LayoutIdle
  /\ AdapterInit

SpecAdapter == InitAdapter /\ [][AdapterNext]_vars

\* C25: a storage call whose fs or SDK call failed ends by raising an error,
\* never by returning a value such as false or an empty list.
C25_FailureRaises ==
  (adapterPc = "settled" /\ underlying = "error"
     /\ localCalls + cloudCalls > 0)
    => outcome = "raised"

\* C26: with the bucket / container variable unset or empty the provider is
\* in local mode: a settled call has made one call on the local storage path,
\* no cloud call and no call of itself.
C26_EmptyBucketIsLocal ==
  (~bucketEnv.set \/ bucketEnv.value = "")
    => /\ adapterUseLocal
       /\ cloudCalls = 0
       /\ selfCalls = 0
       /\ adapterPc = "settled" => localCalls = 1

\* C29: upload and download make a bounded number of internal calls whatever
\* the configuration: one fs or SDK call and no call of themselves.
C29_BoundedInternalCalls ==
  operation \in {"upload", "download"}
    => /\ selfCalls = 0
       /\ localCalls + cloudCalls <= 1
       /\ adapterPc = "settled"
            => \/ outcome = "raised"
               \/ outcome = "returned" /\ returned \in {"filePath", "s3url", "buffer"}

====
